---- MODULE Spec2Model ----
(***************************************************************************)
(* lading: the chunk planner (block.rs chunk_bytes), the block-cache       *)
(* builder (block.rs construct_block_cache, called from Tcp::new), the     *)
(* TCP emission loop (generator/tcp.rs Tcp::spin) and the supervisor       *)
(* (bin/lading.rs inner_main, main).                                       *)
(*                                                                         *)
(* Specifications:                                                         *)
(*   SpecChunk / FairChunk   chunk_bytes alone, over every bounded input   *)
(*   SpecNew                 Tcp::new: chunk_bytes, construct_block_cache  *)
(*   Spec / FairSpec         inner_main, main and the spawned tasks, from  *)
(*                           the state in which Tcp::new has returned      *)
(*   SpecMain / FairMain     the same, the generator with the smallest     *)
(*                           cache and quota                               *)
(*   SpecLoop                Tcp::spin alone, inner_main at its select!    *)
(*   SpecRate                SpecLoop, one rolling window observed         *)
(*   SpecCount               SpecLoop, the counters added up               *)
(*   SpecConfig              get_config                                    *)
(***************************************************************************)
EXTENDS Integers, Sequences, FiniteSets, TLC

\* ------------------------------------------------------------------ bounds

\* Largest total_bytes (maximum_prebuild_cache_size_bytes) explored.
MaxTotal == 5
\* Largest number of entries of block_byte_sizes explored.
MaxPalette == 3
\* Largest single entry of block_byte_sizes explored.
MaxSize == 4
\* The same three for the inputs Tcp::new is explored with.
MaxNewTotal == 4
MaxNewPalette == 2
MaxNewSize == 3
\* Largest low word of bytes_per_second Tcp::new is explored with.
MaxNewRate == 1
\* Largest block_cache length the emission loop is started with.
MaxCacheLen == 2
\* Largest block total_bytes the emission loop is started with.
MaxBlockBytes == 2
\* Largest bytes_per_second explored.
MaxRate == 2
\* Number of counter! calls the metrics recorder adds up.
MaxEvents == 2
\* Longest observed window, in seconds, and the largest block_cache length
\* the loop is observed with.
MaxWindowSeconds == 2
MaxWindowCacheLen == 1

\* The newline byte counted by total_newlines, and one other byte.
NL == 10
OtherByte == 120

VARIABLES
    \* chunk_bytes
    total_bytes,        \* the total_bytes argument
    block_byte_sizes,   \* the block_byte_sizes argument (a sequence)
    chunkPc,            \* "start" | "loop" | "done"
    chunks,             \* the local Vec chunks
    bytes_remaining,    \* the local bytes_remaining
    chunkResult,        \* "pending" | "Ok" | "EmptyBlockBytes" | "InsufficientTotalBytes"
    lastDraw,           \* history: the value of the latest block_byte_sizes.choose (0: none)
    skipped,            \* history: some draw took the `continue` branch
    \* construct_block_cache and the rest of Tcp::new
    cachePc,            \* "idle" | "loop" | "returned" | "panicked"
    chunkIdx,           \* position of the for loop in block_chunks
    block_cache,        \* Vec<Block>
    rendered,           \* history: per chunk, the length the serializer produced (-1: Err)
    outputs,            \* history: per chunk rendered Ok, the bytes the serializer left
    gauge,              \* block_construction_complete as last set (0: never)
    newPc,              \* "start" | "running" | "constructed" | "err" | "panicked"
    config_bps,         \* config.bytes_per_second.get_bytes(), wider than 32 bits: [hi, lo] is hi * 2^32 + lo
    \* Tcp::spin
    bytes_per_second,   \* the quota the rate limiter was built with
    tokens,             \* cells the rate limiter can grant now
    spinPc,             \* "unspawned" | "spawned" | "select" | "writing" | "returned"
    connection,         \* "None" | "Some"
    cursor,             \* index the cycle iterator yields next
    blk,                \* index of the block taken by this iteration (0: none yet)
    granted,            \* history: tokens granted to this iteration's until_n_ready (0: none)
    lastAttempt,        \* history: index of the block of the previous write_all (0: none)
    sinkStalled,        \* the peer has stopped reading and the socket buffer is full
    metric,             \* the latest counter! call: <<name, delta>>
    win,                \* observer: one rolling window, [seconds, ticks, granted, written] (seconds 0: not opened)
    tally,              \* the metrics recorder: the counters' totals over the first `left` + recorded counter! calls, and what they are compared with
    \* inner_main and main
    telemetry,          \* config.telemetry: "Prometheus" | "Log"
    blackhole,          \* config.blackhole.is_some()
    mainPc,             \* position of inner_main / main
    receivers,          \* holders of a broadcast receiver
    shutdown_sent,      \* shutdown_snd.send(()) has happened
    tasks,              \* sibling tasks: name -> "none" | "running" | "done"
    trigger,            \* history: the select! branch that broadcast ("none" before)
    \* get_config
    opts,               \* the parsed command line (Opts)
    config,             \* the Config: read from the file, then as get_config leaves it
    cfgPc               \* "parsed" | "returned" | "panicked"

chunkVars == <<total_bytes, block_byte_sizes, chunkPc, chunks, bytes_remaining,
               chunkResult, lastDraw, skipped>>
cacheVars == <<cachePc, chunkIdx, block_cache, rendered, gauge, newPc, outputs, config_bps>>
spinVars == <<bytes_per_second, tokens, spinPc, connection, cursor, blk, granted,
              lastAttempt, sinkStalled, metric, win, tally>>
cfgVars == <<opts, config, cfgPc>>
mainVars == <<telemetry, blackhole, mainPc, receivers, shutdown_sent, tasks, trigger,
              cfgVars>>
vars == <<chunkVars, cacheVars, spinVars, mainVars>>

\* ----------------------------------------------------------------- helpers

Min(a, b) == IF a < b THEN a ELSE b

SeqsUpTo(S, n) == UNION {[1..k -> S] : k \in 0..n}

Range(s) == {s[i] : i \in DOMAIN s}

RECURSIVE SumSeq(_)
SumSeq(s) == IF s = <<>> THEN 0 ELSE s[1] + SumSeq(Tail(s))

SetMin(S) == CHOOSE x \in S : \A y \in S : x <= y
SetMax(S) == CHOOSE x \in S : \A y \in S : x >= y

\* ------------------------------------------------------------- chunk_bytes

\* block_byte_sizes.iter().min() / .max()
Minimum == SetMin(Range(block_byte_sizes))
Maximum == SetMax(Range(block_byte_sizes))

\* usize::saturating_sub
SaturatingSub(a, b) == IF b > a THEN 0 ELSE a - b

\* for bb in block_byte_sizes { if *bb > total_bytes { return Err } }
\* (variant: >= in place of >)
InsufficientMut == \E i \in DOMAIN block_byte_sizes : block_byte_sizes[i] >= total_bytes
Insufficient == \E i \in DOMAIN block_byte_sizes : block_byte_sizes[i] > total_bytes

\* while bytes_remaining > minimum
\* (variant: looping until the budget is exhausted)
LoopCondMut == bytes_remaining > 0
LoopCond == bytes_remaining > Minimum

\* let bytes_max = std::cmp::min(maximum, bytes_remaining);
\* (variant: the cap by bytes_remaining dropped)
BytesMaxMut(remaining) == Maximum
BytesMax(remaining) == Min(Maximum, remaining)

\* block_byte_sizes.choose(rng).unwrap().get(), the rng picking index i
\* (variant: off by one)
ChooseMut(i) == block_byte_sizes[i] - 1
Choose(i) == block_byte_sizes[i]

\* The two early returns and the locals' initialisation.
ChunkValidate ==
    /\ chunkPc = "start"
    /\ IF block_byte_sizes = <<>>
       THEN /\ chunkResult' = "EmptyBlockBytes"
            /\ chunkPc' = "done"
            /\ UNCHANGED <<chunks, bytes_remaining>>
       ELSE IF Insufficient
       THEN /\ chunkResult' = "InsufficientTotalBytes"
            /\ chunkPc' = "done"
            /\ UNCHANGED <<chunks, bytes_remaining>>
       ELSE /\ chunks' = <<>>
            /\ bytes_remaining' = total_bytes
            /\ chunkPc' = "loop"
            /\ UNCHANGED chunkResult
    /\ UNCHANGED <<total_bytes, block_byte_sizes, lastDraw, skipped>>
    /\ UNCHANGED <<cacheVars, spinVars, mainVars>>

\* One iteration of the while loop, the rng choosing entry i.
ChunkDraw(i) ==
    /\ chunkPc = "loop"
    /\ LoopCond
    /\ i \in DOMAIN block_byte_sizes
    /\ LET bytes_max == BytesMax(bytes_remaining)
           block_bytes == Choose(i)
       IN /\ lastDraw' = block_bytes
          /\ IF block_bytes > bytes_max
             THEN /\ skipped' = TRUE
                  /\ UNCHANGED <<chunks, bytes_remaining>>
             ELSE /\ chunks' = Append(chunks, block_bytes)
                  /\ bytes_remaining' = SaturatingSub(bytes_remaining, block_bytes)
                  /\ UNCHANGED skipped
    /\ UNCHANGED <<total_bytes, block_byte_sizes, chunkPc, chunkResult>>
    /\ UNCHANGED <<cacheVars, spinVars, mainVars>>

\* The loop condition fails: Ok(chunks).
ChunkReturn ==
    /\ chunkPc = "loop"
    /\ ~LoopCond
    /\ chunkPc' = "done"
    /\ chunkResult' = "Ok"
    /\ UNCHANGED <<total_bytes, block_byte_sizes, chunks, bytes_remaining, lastDraw, skipped>>
    /\ UNCHANGED <<cacheVars, spinVars, mainVars>>

\* ------------------------------------- construct_block_cache and Tcp::new

\* The bytes a serializer may append for a size hint: Serialize::to_bytes
\* appends 0..=size_hint bytes, each either a newline or not.
SerializerOutputs(size_hint) == SeqsUpTo({NL, OtherByte}, size_hint)

\* bytecount::count(input, b'\n')
\* (variant: the bytes other than newlines counted)
total_newlinesMut(input) == Cardinality({i \in DOMAIN input : input[i] # NL})
total_newlines(input) == Cardinality({i \in DOMAIN input : input[i] = NL})

\* Block { total_bytes, lines: newlines, bytes: block }
MakeBlock(block) ==
    [total_bytes |-> Len(block), lines |-> total_newlines(block), bytes |-> block]

\* assert!(!block_cache.is_empty())
\* (variant: the assertion dropped)
CacheNonEmptyMut == TRUE
CacheNonEmpty == block_cache # <<>>

\* `as u32` of a wider unsigned integer: the low 32 bits.
AsU32(v) == v.lo

\* let bytes_per_second = NonZeroU32::new(config.bytes_per_second.get_bytes() as u32).unwrap();
\* let rate_limiter = RateLimiter::direct(Quota::per_second(bytes_per_second));
\* The unwrap panics on zero; the limiter starts with its whole burst.
NewRateLimiter ==
    /\ newPc = "start"
    /\ IF AsU32(config_bps) = 0
       THEN /\ newPc' = "panicked"
            /\ UNCHANGED <<bytes_per_second, tokens>>
       ELSE /\ bytes_per_second' = AsU32(config_bps)
            /\ tokens' = AsU32(config_bps)
            /\ newPc' = "running"
    /\ UNCHANGED <<cachePc, chunkIdx, block_cache, rendered, gauge, outputs, config_bps>>
    /\ UNCHANGED <<spinPc, connection, cursor, blk, granted, lastAttempt, sinkStalled,
                   metric, win>>
    /\ UNCHANGED <<chunkVars, mainVars>>
    /\ UNCHANGED tally

\* chunk_bytes(...)? : an Err of chunk_bytes is returned by Tcp::new.
NewChunkErr ==
    /\ newPc = "running"
    /\ chunkPc = "done"
    /\ chunkResult # "Ok"
    /\ newPc' = "err"
    /\ UNCHANGED <<cachePc, chunkIdx, block_cache, rendered, gauge>>
    /\ UNCHANGED <<chunkVars, spinVars, mainVars>>
    /\ UNCHANGED outputs
    /\ UNCHANGED config_bps

\* construct_block_cache is entered with block_chunks = chunks.
CacheEnter ==
    /\ newPc = "running"
    /\ chunkPc = "done"
    /\ chunkResult = "Ok"
    /\ cachePc = "idle"
    /\ cachePc' = "loop"
    /\ block_cache' = <<>>
    /\ chunkIdx' = 1
    /\ UNCHANGED <<rendered, gauge, newPc>>
    /\ UNCHANGED <<chunkVars, spinVars, mainVars>>
    /\ UNCHANGED outputs
    /\ UNCHANGED config_bps

\* One iteration of `for block_size in block_chunks`: the serializer fails
\* (ok = FALSE, the unwrap panics) or leaves `out` in the buffer.
CacheSerialize(ok, out) ==
    /\ cachePc = "loop"
    /\ chunkIdx <= Len(chunks)
    /\ out \in SerializerOutputs(chunks[chunkIdx])
    /\ IF ~ok
       THEN /\ out = <<>>
            /\ rendered' = Append(rendered, -1)
            /\ cachePc' = "panicked"
            /\ newPc' = "panicked"
            /\ UNCHANGED <<chunkIdx, block_cache, outputs>>
       ELSE /\ rendered' = Append(rendered, Len(out))
            /\ outputs' = Append(outputs, out)
            /\ chunkIdx' = chunkIdx + 1
            /\ block_cache' = IF out = <<>> THEN block_cache
                              ELSE Append(block_cache, MakeBlock(out))
            /\ UNCHANGED <<cachePc, newPc>>
    /\ UNCHANGED gauge
    /\ UNCHANGED <<chunkVars, spinVars, mainVars>>
    /\ UNCHANGED config_bps

CacheStep ==
    /\ cachePc = "loop"
    /\ chunkIdx <= Len(chunks)
    /\ \E ok \in BOOLEAN : \E out \in SerializerOutputs(chunks[chunkIdx]) :
          CacheSerialize(ok, out)

\* After the loop: the assertion, the gauge, the return.
CacheFinish ==
    /\ cachePc = "loop"
    /\ chunkIdx > Len(chunks)
    /\ IF CacheNonEmpty
       THEN /\ gauge' = 1
            /\ cachePc' = "returned"
            /\ UNCHANGED newPc
       ELSE /\ cachePc' = "panicked"
            /\ newPc' = "panicked"
            /\ UNCHANGED gauge
    /\ UNCHANGED <<chunkIdx, block_cache, rendered>>
    /\ UNCHANGED <<chunkVars, spinVars, mainVars>>
    /\ UNCHANGED outputs
    /\ UNCHANGED config_bps

\* The address is resolved (expect/unwrap panic when it cannot be) and
\* Ok(Self) is returned.
NewReturn(resolved) ==
    /\ newPc = "running"
    /\ cachePc = "returned"
    /\ newPc' = IF resolved THEN "constructed" ELSE "panicked"
    /\ UNCHANGED <<cachePc, chunkIdx, block_cache, rendered, gauge>>
    /\ UNCHANGED <<chunkVars, spinVars, mainVars>>
    /\ UNCHANGED outputs
    /\ UNCHANGED config_bps

\* ---------------------------------------------------------------- Tcp::spin

\* The runtime exists: main has neither panicked nor torn it down.
RuntimeAlive == mainPc \notin {"panicked", "torn_down", "exited"}

\* blocks.next() of block_cache.iter().cycle(): the index after i.
CycleNext(i) == (i % Len(block_cache)) + 1

\* Quota::per_second(bytes_per_second): the burst the limiter can ever grant.
\* until_n_ready(n) fails at once with InsufficientCapacity for a larger n.
InsufficientCapacity(n) == n > bytes_per_second

\* The head of the loop body: let blk = blocks.next().unwrap().
TakeBlock ==
    /\ blk' = cursor
    /\ cursor' = CycleNext(cursor)

\* No window under observation.
NoWindow == [seconds |-> 0, ticks |-> 0, granted |-> 0, written |-> 0]

\* The observed window of win.seconds seconds is open. Time advances in
\* steps of 1/bytes_per_second s, the interval at which the limiter
\* replenishes one cell: a window opened at step t covers the steps
\* t .. t + win.seconds * bytes_per_second - 1 and ends with the step after.
WindowRunning == win.seconds > 0 /\ win.ticks < win.seconds * bytes_per_second

\* No recorder attached: no counter! call is added up.
NoTally ==
    [left |-> 0, bytes_written |-> 0, connection_failure |-> 0, request_failure |-> 0,
     ok_bytes |-> 0, connected |-> FALSE]

\* counter!(name, delta, ..): the recorder adds delta to the counter, for as
\* long as it records.
Count(name, delta) ==
    IF tally.left = 0 THEN tally
    ELSE [tally EXCEPT ![name] = @ + delta, !.left = @ - 1]

\* u64::from(blk.total_bytes.get())
\* (variant: writes counted, not bytes)
WrittenDeltaMut(b) == 1
WrittenDelta(b) == b.total_bytes

\* conn = TcpStream::connect(self.addr), if connection.is_none()
ConnectGuard == connection = "None"

\* _ = self.rate_limiter.until_n_ready(total_bytes), if connection.is_some()
\* (variant: the precondition dropped)
SendGuardMut == TRUE
SendGuard == connection = "Some"

\* The task is first polled: the locals, and the first blocks.next().
SpinStart ==
    /\ RuntimeAlive
    /\ spinPc = "spawned"
    /\ spinPc' = "select"
    /\ connection' = "None"
    /\ TakeBlock
    /\ UNCHANGED <<bytes_per_second, tokens, granted, lastAttempt, sinkStalled, metric>>
    /\ UNCHANGED <<chunkVars, cacheVars, mainVars>>
    /\ UNCHANGED win
    /\ UNCHANGED tally

\* select!: TcpStream::connect resolves Ok; the loop takes its next block.
ConnectOk ==
    /\ RuntimeAlive
    /\ spinPc = "select"
    /\ ConnectGuard
    /\ connection' = "Some"
    /\ sinkStalled' = FALSE
    /\ TakeBlock
    /\ tally' = [tally EXCEPT !.connected = TRUE]
    /\ UNCHANGED <<bytes_per_second, tokens, spinPc, granted, lastAttempt, metric>>
    /\ UNCHANGED <<chunkVars, cacheVars, mainVars>>
    /\ UNCHANGED win

\* select!: TcpStream::connect resolves Err.
ConnectErr ==
    /\ RuntimeAlive
    /\ spinPc = "select"
    /\ ConnectGuard
    /\ metric' = <<"connection_failure", 1>>
    /\ tally' = Count("connection_failure", 1)
    /\ TakeBlock
    /\ UNCHANGED <<bytes_per_second, tokens, spinPc, connection, granted, lastAttempt,
                   sinkStalled>>
    /\ UNCHANGED <<chunkVars, cacheVars, mainVars>>
    /\ UNCHANGED win

\* select!: until_n_ready(total_bytes) resolves, with Ok(()) once the cells
\* are there or with Err(InsufficientCapacity); the `_` pattern takes either
\* and write_all starts.
SendBranch ==
    /\ RuntimeAlive
    /\ spinPc = "select"
    /\ SendGuard
    /\ LET n == block_cache[blk].total_bytes
       IN IF InsufficientCapacity(n)
          THEN /\ granted' = 0
               /\ UNCHANGED <<tokens, win>>
          ELSE /\ tokens >= n
               /\ tokens' = tokens - n
               /\ granted' = n
               /\ win' = IF WindowRunning THEN [win EXCEPT !.granted = @ + n] ELSE win
    /\ spinPc' = "writing"
    /\ UNCHANGED <<bytes_per_second, connection, cursor, blk, lastAttempt, sinkStalled,
                   metric>>
    /\ UNCHANGED <<chunkVars, cacheVars, mainVars>>
    /\ UNCHANGED tally

\* Ok(()) => { ...; connection = Some(client); }
\* (variant: the client dropped after a successful write)
ConnectionAfterOkMut == "None"
ConnectionAfterOk == "Some"

\* Err(err) => { ...; connection = None; }
\* (variant: the client kept after a failed write)
ConnectionAfterErrMut == "Some"
ConnectionAfterErr == "None"

\* The Err arm ends without a return: the loop goes on to its next iteration.
\* (variant: the write error returned from spin)
PcAfterWriteErrMut == "returned"
PcAfterWriteErr == "select"

\* write_all returns Ok(()).
WriteOk ==
    /\ RuntimeAlive
    /\ spinPc = "writing"
    /\ ~sinkStalled
    /\ metric' = <<"bytes_written", WrittenDelta(block_cache[blk])>>
    /\ tally' = [Count("bytes_written", WrittenDelta(block_cache[blk])) EXCEPT
                    !.ok_bytes = IF tally.left = 0 THEN @
                                 ELSE @ + block_cache[blk].total_bytes]
    /\ connection' = ConnectionAfterOk
    /\ lastAttempt' = blk
    /\ granted' = 0
    /\ spinPc' = "select"
    /\ TakeBlock
    /\ win' = IF WindowRunning
              THEN [win EXCEPT !.written = @ + block_cache[blk].total_bytes]
              ELSE win
    /\ UNCHANGED <<bytes_per_second, tokens, sinkStalled>>
    /\ UNCHANGED <<chunkVars, cacheVars, mainVars>>

\* write_all returns Err.
WriteErr ==
    /\ RuntimeAlive
    /\ spinPc = "writing"
    /\ metric' = <<"request_failure", 1>>
    /\ tally' = Count("request_failure", 1)
    /\ connection' = ConnectionAfterErr
    /\ lastAttempt' = blk
    /\ granted' = 0
    /\ spinPc' = PcAfterWriteErr
    /\ TakeBlock
    /\ UNCHANGED <<bytes_per_second, tokens, sinkStalled>>
    /\ UNCHANGED <<chunkVars, cacheVars, mainVars>>
    /\ UNCHANGED win

\* select!: shutdown.recv() resolves; return Ok(()), dropping self.
ShutdownRecv ==
    /\ RuntimeAlive
    /\ spinPc = "select"
    /\ shutdown_sent
    /\ spinPc' = "returned"
    /\ receivers' = receivers \ {"generator"}
    /\ UNCHANGED <<bytes_per_second, tokens, connection, cursor, blk, granted, lastAttempt,
                   sinkStalled, metric>>
    /\ UNCHANGED <<telemetry, blackhole, mainPc, shutdown_sent, tasks, trigger>>
    /\ UNCHANGED <<chunkVars, cacheVars>>
    /\ UNCHANGED win
    /\ UNCHANGED tally
    /\ UNCHANGED cfgVars

\* Quota::per_second(bytes_per_second): one cell is replenished per
\* 1/bytes_per_second s, never beyond the burst of bytes_per_second cells.
\* (variant: the whole burst replenished at every interval)
RefillMut(t) == bytes_per_second
Refill(t) == Min(t + 1, bytes_per_second)

\* Time passes by 1/bytes_per_second s: the limiter replenishes one cell, up
\* to its burst. (With the burst full and no window observed nothing changes.)
Tick ==
    /\ RuntimeAlive
    /\ spinPc \in {"select", "writing"}
    /\ tokens < bytes_per_second \/ WindowRunning
    /\ tokens' = Refill(tokens)
    /\ win' = IF WindowRunning THEN [win EXCEPT !.ticks = @ + 1] ELSE win
    /\ UNCHANGED <<bytes_per_second, spinPc, connection, cursor, blk, granted, lastAttempt,
                   sinkStalled, metric>>
    /\ UNCHANGED <<chunkVars, cacheVars, mainVars>>
    /\ UNCHANGED tally

\* The observer starts watching a window of k seconds, at any moment from the
\* first poll of the task on.
OpenWindow(k) ==
    /\ RuntimeAlive
    /\ spinPc \in {"select", "writing"}
    /\ win = NoWindow
    /\ win' = [NoWindow EXCEPT !.seconds = k]
    /\ UNCHANGED <<bytes_per_second, tokens, spinPc, connection, cursor, blk, granted,
                   lastAttempt, sinkStalled, metric>>
    /\ UNCHANGED <<chunkVars, cacheVars, mainVars>>
    /\ UNCHANGED tally

\* The peer stops reading: from now on a write on this connection pends.
SinkStall ==
    /\ RuntimeAlive
    /\ connection = "Some"
    /\ spinPc \in {"select", "writing"}
    /\ ~sinkStalled
    /\ sinkStalled' = TRUE
    /\ UNCHANGED <<bytes_per_second, tokens, spinPc, connection, cursor, blk, granted,
                   lastAttempt, metric>>
    /\ UNCHANGED <<chunkVars, cacheVars, mainVars>>
    /\ UNCHANGED win
    /\ UNCHANGED tally

\* ------------------------------------------------------ inner_main and main

\* tokio::spawn(generator_server.run())
MainSpawnGenerator ==
    /\ mainPc = "spawn_generator"
    /\ spinPc' = "spawned"
    /\ mainPc' = "target"
    /\ UNCHANGED <<bytes_per_second, tokens, connection, cursor, blk, granted, lastAttempt,
                   sinkStalled, metric>>
    /\ UNCHANGED <<telemetry, blackhole, receivers, shutdown_sent, tasks, trigger>>
    /\ UNCHANGED <<chunkVars, cacheVars>>
    /\ UNCHANGED win
    /\ UNCHANGED tally
    /\ UNCHANGED cfgVars

\* target::Server::new(.., Shutdown::new(subscribe())).unwrap(), then spawn.
MainTarget(ok) ==
    /\ mainPc = "target"
    /\ receivers' = receivers \cup {"target"}
    /\ IF ok
       THEN /\ tasks' = [tasks EXCEPT !["target"] = "running"]
            /\ mainPc' = "blackhole"
       ELSE /\ mainPc' = "panicked"
            /\ UNCHANGED tasks
    /\ UNCHANGED <<telemetry, blackhole, shutdown_sent, trigger>>
    /\ UNCHANGED <<chunkVars, cacheVars, spinVars>>
    /\ UNCHANGED cfgVars

\* if let Some(blackhole_conf) = config.blackhole { subscribe, spawn }
MainBlackhole ==
    /\ mainPc = "blackhole"
    /\ IF blackhole
       THEN /\ receivers' = receivers \cup {"blackhole"}
            /\ tasks' = [tasks EXCEPT !["blackhole"] = "running"]
       ELSE UNCHANGED <<receivers, tasks>>
    /\ mainPc' = "drop"
    /\ UNCHANGED <<telemetry, blackhole, shutdown_sent, trigger>>
    /\ UNCHANGED <<chunkVars, cacheVars, spinVars>>
    /\ UNCHANGED cfgVars

\* drop(shutdown_rcv) and the experiment_duration timer.
MainDrop ==
    /\ mainPc = "drop"
    /\ receivers' = receivers \ {"main"}
    /\ mainPc' = "select"
    /\ UNCHANGED <<telemetry, blackhole, shutdown_sent, tasks, trigger>>
    /\ UNCHANGED <<chunkVars, cacheVars, spinVars>>
    /\ UNCHANGED cfgVars

\* A branch of inner_main's select! is ready: ctrl-c and the timer may fire at
\* any moment, the JoinHandle tsrv resolves once the target task has finished.
\* (variant: the target branch ready while the target task still runs)
BranchReadyMut(branch) == TRUE
BranchReady(branch) == branch = "target" => tasks["target"] = "done"

\* select! { ctrl_c | experiment_duration | tsrv }: shutdown_snd.send(()).unwrap()
MainSelect(branch) ==
    /\ mainPc = "select"
    /\ branch \in {"ctrl_c", "experiment_duration", "target"}
    /\ BranchReady(branch)
    /\ IF receivers = {}
       THEN /\ mainPc' = "panicked"
            /\ UNCHANGED <<shutdown_sent, trigger>>
       ELSE /\ shutdown_sent' = TRUE
            /\ trigger' = branch
            /\ mainPc' = "wait"
    /\ UNCHANGED <<telemetry, blackhole, receivers, tasks>>
    /\ UNCHANGED <<chunkVars, cacheVars, spinVars>>
    /\ UNCHANGED cfgVars

\* let remaining: usize = shutdown_snd.receiver_count();
\* (variant: the count not consulted)
RemainingMut(rcvs) == 0
Remaining(rcvs) == Cardinality(rcvs)

\* loop { let remaining = receiver_count(); if remaining != 0 { sleep } else { return } }
MainWait ==
    /\ mainPc = "wait"
    /\ mainPc' = IF Remaining(receivers) # 0 THEN "sleep" ELSE "returned"
    /\ UNCHANGED <<telemetry, blackhole, receivers, shutdown_sent, tasks, trigger>>
    /\ UNCHANGED <<chunkVars, cacheVars, spinVars>>
    /\ UNCHANGED cfgVars

\* sleep(Duration::from_secs(1)).await completes.
MainWake ==
    /\ mainPc = "sleep"
    /\ mainPc' = "wait"
    /\ UNCHANGED <<telemetry, blackhole, receivers, shutdown_sent, tasks, trigger>>
    /\ UNCHANGED <<chunkVars, cacheVars, spinVars>>
    /\ UNCHANGED cfgVars

\* block_on returns; runtime.shutdown_timeout(max_shutdown_delay).
MainTeardown ==
    /\ mainPc = "returned"
    /\ mainPc' = "torn_down"
    /\ UNCHANGED <<telemetry, blackhole, receivers, shutdown_sent, tasks, trigger>>
    /\ UNCHANGED <<chunkVars, cacheVars, spinVars>>
    /\ UNCHANGED cfgVars

\* info!("Bye. :)") and main returns.
MainBye ==
    /\ mainPc = "torn_down"
    /\ mainPc' = "exited"
    /\ UNCHANGED <<telemetry, blackhole, receivers, shutdown_sent, tasks, trigger>>
    /\ UNCHANGED <<chunkVars, cacheVars, spinVars>>
    /\ UNCHANGED cfgVars

\* A sibling task (capture manager, target server, blackhole) finishes and
\* drops its Shutdown: after it observed the broadcast, or, for the target
\* server, whenever the target process exits.
TaskExit(t) ==
    /\ RuntimeAlive
    /\ tasks[t] = "running"
    /\ shutdown_sent \/ t = "target"
    /\ tasks' = [tasks EXCEPT ![t] = "done"]
    /\ receivers' = receivers \ {t}
    /\ UNCHANGED <<telemetry, blackhole, mainPc, shutdown_sent, trigger>>
    /\ UNCHANGED <<chunkVars, cacheVars, spinVars>>
    /\ UNCHANGED cfgVars

\* --------------------------------------------------------------- get_config

\* HashMap<String, String> over the keys K and the values V.
Maps(K, V) == UNION {[D -> V] : D \in SUBSET K}

\* for (k, v) in extra { map.insert(k, v); }
InsertAll(map, extra) ==
    [k \in (DOMAIN map) \cup (DOMAIN extra) |->
        IF k \in DOMAIN extra THEN extra[k] ELSE map[k]]

\* Opts with no option given: the argh defaults.
NoOpts ==
    [capture_path |-> "None", prometheus_addr |-> "None",
     global_labels |-> <<>>, target_env_vars |-> <<>>]

\* The Config deserialized from the file: its telemetry variant with the
\* file's address or path and labels, and the target's environment.
FileConfig(kind, labels, env) ==
    [telemetry |-> [kind |-> kind, target |-> "from_file", global_labels |-> labels],
     environment_variables |-> env]

\* prom_addr.parse::<SocketAddr>() is Ok
ParsesAsAddr(a) == a # "not_an_address"

\* get_config from the deserialized file on: the target's environment, then
\* the telemetry.
GetConfig ==
    /\ cfgPc = "parsed"
    /\ LET env == InsertAll(config.environment_variables, opts.target_env_vars)
       IN IF opts.prometheus_addr # "None"
          THEN IF ParsesAsAddr(opts.prometheus_addr)
               THEN /\ config' = [environment_variables |-> env,
                                  telemetry |-> [kind |-> "Prometheus",
                                                 target |-> opts.prometheus_addr,
                                                 global_labels |-> opts.global_labels]]
                    /\ cfgPc' = "returned"
               ELSE /\ config' = [config EXCEPT !.environment_variables = env]
                    /\ cfgPc' = "panicked"
          ELSE IF opts.capture_path # "None"
          THEN /\ config' = [environment_variables |-> env,
                             telemetry |-> [kind |-> "Log",
                                            target |-> opts.capture_path,
                                            global_labels |-> opts.global_labels]]
               /\ cfgPc' = "returned"
          ELSE /\ config' = [environment_variables |-> env,
                             telemetry |-> [config.telemetry EXCEPT !.global_labels =
                                               InsertAll(@, opts.global_labels)]]
               /\ cfgPc' = "returned"
    /\ telemetry' = config'.telemetry.kind
    /\ UNCHANGED <<opts, blackhole, mainPc, receivers, shutdown_sent, tasks, trigger>>
    /\ UNCHANGED <<chunkVars, cacheVars, spinVars>>

\* ------------------------------------------------------ initial conditions

\* chunk_bytes called with any total_bytes (NonZeroUsize) and any palette of
\* NonZeroUsize entries, the empty one included.
ChunkInputs ==
    /\ total_bytes \in 1..MaxTotal
    /\ block_byte_sizes \in SeqsUpTo(1..MaxSize, MaxPalette)
    /\ chunkPc = "start"
    /\ chunks = <<>>
    /\ bytes_remaining = 0
    /\ chunkResult = "pending"
    /\ lastDraw = 0
    /\ skipped = FALSE

\* construct_block_cache not yet called.
IdleCache ==
    /\ cachePc = "idle"
    /\ chunkIdx = 1
    /\ block_cache = <<>>
    /\ rendered = <<>>
    /\ gauge = 0
    /\ newPc = "running"
    /\ outputs = <<>>
    /\ config_bps = [hi |-> 0, lo |-> 1]

\* No emission task yet.
IdleSpin ==
    /\ bytes_per_second = 1
    /\ tokens = 1
    /\ spinPc = "unspawned"
    /\ connection = "None"
    /\ cursor = 1
    /\ blk = 0
    /\ granted = 0
    /\ lastAttempt = 0
    /\ sinkStalled = FALSE
    /\ metric = <<"none", 0>>
    /\ win = NoWindow
    /\ tally = NoTally

\* inner_main not yet entered.
IdleMain ==
    /\ telemetry = "Prometheus"
    /\ blackhole = FALSE
    /\ mainPc = "telemetry"
    /\ receivers = {}
    /\ shutdown_sent = FALSE
    /\ tasks = [t \in {"capture", "target", "blackhole"} |-> "none"]
    /\ trigger = "none"
    /\ opts = NoOpts
    /\ config = FileConfig(telemetry, <<>>, <<>>)
    /\ cfgPc = "returned"

\* -------------------------------------------- chunk_bytes: specifications

NextChunk ==
    \/ ChunkValidate
    \/ \E i \in 1..MaxPalette : ChunkDraw(i)
    \/ ChunkReturn

InitChunk == ChunkInputs /\ IdleCache /\ IdleSpin /\ IdleMain

SpecChunk == InitChunk /\ [][NextChunk]_vars

\* The rng is uniform over the palette: a member that stays drawable forever
\* is drawn.
FairChunk ==
    /\ SpecChunk
    /\ WF_vars(ChunkValidate)
    /\ WF_vars(ChunkReturn)
    /\ \A i \in 1..MaxPalette : WF_vars(ChunkDraw(i))

ChunkOk == chunkPc = "done" /\ chunkResult = "Ok"

\* C5 (as claimed): for every non-empty palette with no entry above
\* total_bytes, the smallest entry equal to total_bytes included, the plan
\* chunk_bytes returns is non-empty.
C5_PlanNonEmpty == ChunkOk => chunks # <<>>

\* C6: the returned plan satisfies sum(plan) <= total_bytes and
\* total_bytes - sum(plan) <= min(palette).
C6_SumWithinBudget ==
    ChunkOk =>
        /\ SumSeq(chunks) <= total_bytes
        /\ total_bytes - SumSeq(chunks) <= SetMin(Range(block_byte_sizes))

C6_Witness ==
    /\ ChunkOk
    /\ Len(chunks) >= 2
    /\ SumSeq(chunks) < total_bytes
    /\ Len(block_byte_sizes) = 2

\* C7: every element of the plan is a member of the palette and strictly
\* positive, and a draw larger than min(max(palette), remaining) is skipped
\* and appends nothing.
C7_ElementsFromPalette ==
    /\ [](\A k \in DOMAIN chunks :
            chunks[k] > 0 /\ chunks[k] \in Range(block_byte_sizes))
    /\ [][\A i \in DOMAIN block_byte_sizes :
            (ChunkDraw(i) /\ block_byte_sizes[i] >
                Min(SetMax(Range(block_byte_sizes)), bytes_remaining))
            => (chunks' = chunks /\ bytes_remaining' = bytes_remaining)]_vars

C7_Witness ==
    /\ ChunkOk
    /\ skipped
    /\ Cardinality(Range(chunks)) = 2

C9_Terminates ==
    /\ <>(chunkPc = "done")
    /\ []((chunkPc = "loop" /\ bytes_remaining > SetMin(Range(block_byte_sizes)))
            => SetMin(Range(block_byte_sizes)) <=
                 Min(SetMax(Range(block_byte_sizes)), bytes_remaining))
    /\ [][chunks' # chunks => bytes_remaining' < bytes_remaining]_vars
    /\ [](ChunkOk => bytes_remaining <= SetMin(Range(block_byte_sizes)))

C9_Witness ==
    /\ ChunkOk
    /\ skipped
    /\ Len(chunks) >= 1
    /\ bytes_remaining < SetMin(Range(block_byte_sizes))

\* ----------------------------------------------- Tcp::new: specification

NextNew ==
    \/ NewRateLimiter
    \/ (newPc = "running" /\ NextChunk)
    \/ NewChunkErr
    \/ CacheEnter
    \/ CacheStep
    \/ CacheFinish
    \/ \E resolved \in BOOLEAN : NewReturn(resolved)

\* Tcp::new is entered: nothing built yet, bytes_per_second any value
\* hi * 2^32 + lo, zero included.
NewInputs ==
    /\ cachePc = "idle"
    /\ chunkIdx = 1
    /\ block_cache = <<>>
    /\ rendered = <<>>
    /\ outputs = <<>>
    /\ gauge = 0
    /\ newPc = "start"
    /\ config_bps \in [hi : 0..1, lo : 0..MaxNewRate]

\* Tcp::new called with any configuration within the bounds.
InitNew ==
    /\ ChunkInputs
    /\ total_bytes <= MaxNewTotal
    /\ Len(block_byte_sizes) <= MaxNewPalette
    /\ \A i \in DOMAIN block_byte_sizes : block_byte_sizes[i] <= MaxNewSize
    /\ NewInputs
    /\ IdleSpin
    /\ IdleMain

SpecNew == InitNew /\ [][NextNew]_vars

CacheTerminal == cachePc \in {"returned", "panicked"}
SomeNonEmpty == \E k \in DOMAIN rendered : rendered[k] > 0
NoSerializerErr == \A k \in DOMAIN rendered : rendered[k] # -1

\* C10 (as claimed): construct_block_cache returns normally exactly when at
\* least one chunk produced non-empty serializer output, aborts without the
\* gauge otherwise, and every constructed Tcp holds a cache with len >= 1.
C10_ReturnsIffNonEmpty ==
    /\ CacheTerminal => (cachePc = "returned" <=> SomeNonEmpty)
    /\ cachePc = "returned" => (Len(block_cache) >= 1 /\ gauge = 1)
    /\ cachePc = "panicked" => gauge = 0
    /\ newPc = "constructed" => Len(block_cache) >= 1

\* C10 (amended): construct_block_cache returns normally exactly when no
\* serializer call failed and at least one chunk produced non-empty output;
\* it aborts without the gauge when a serializer call fails, when every chunk
\* rendered empty or when the plan is empty; every constructed Tcp holds a
\* cache with len >= 1.
C10_ReturnsIffNonEmptyAndNoErr ==
    /\ CacheTerminal => (cachePc = "returned" <=> (NoSerializerErr /\ SomeNonEmpty))
    /\ cachePc = "returned" => (Len(block_cache) >= 1 /\ gauge = 1)
    /\ cachePc = "panicked" => (gauge = 0 /\ newPc = "panicked")
    /\ newPc = "constructed" => Len(block_cache) >= 1

C10_Witness ==
    /\ newPc = "constructed"
    /\ cachePc = "returned"
    /\ \E k \in DOMAIN rendered : rendered[k] = 0
    /\ Len(block_cache) >= 1
    /\ Len(block_cache) < Len(rendered)

\* block_cache.iter().map(|b| b.total_bytes).sum()
CacheBytes == SumSeq([k \in DOMAIN block_cache |-> block_cache[k].total_bytes])

\* C11: with a serializer that appends at most size_hint bytes per call, the
\* sum of total_bytes over the blocks of the cache Tcp::new builds never
\* exceeds maximum_prebuild_cache_size_bytes (total_bytes of chunk_bytes).
C11_CacheWithinBudget ==
    cachePc \in {"loop", "returned"} => CacheBytes <= total_bytes

C11_Witness ==
    /\ newPc = "constructed"
    /\ Len(block_cache) >= 2
    /\ CacheBytes = total_bytes

\* The serializer outputs that were not skipped, in chunk order.
NonEmptyOutputs == SelectSeq(outputs, LAMBDA o : o # <<>>)

\* C12: every block of the cache has total_bytes = len(bytes) > 0 and
\* lines = the number of newline bytes in bytes, and the blocks are the
\* chunks' outputs in chunk order with the empty ones skipped.
C12_BlocksWellFormed ==
    /\ Len(block_cache) = Len(NonEmptyOutputs)
    /\ \A k \in DOMAIN block_cache :
          /\ block_cache[k].bytes = NonEmptyOutputs[k]
          /\ block_cache[k].total_bytes = Len(block_cache[k].bytes)
          /\ block_cache[k].total_bytes > 0
          /\ block_cache[k].lines =
                Cardinality({i \in DOMAIN block_cache[k].bytes : block_cache[k].bytes[i] = NL})

C12_Witness ==
    /\ cachePc = "returned"
    /\ Len(outputs) = 3
    /\ outputs[2] = <<>>
    /\ Len(block_cache) = 2
    /\ block_cache[1].bytes # block_cache[2].bytes
    /\ block_cache[2].lines = 1
    /\ block_cache[2].total_bytes = 2

\* --------------------------------- the running program: specifications

\* A block of n bytes none of which is a newline.
PlainBlock(n) == MakeBlock([i \in 1..n |-> OtherByte])

\* The caches the emission loop is started with.
Caches ==
    {[k \in DOMAIN sz |-> PlainBlock(sz[k])] :
        sz \in SeqsUpTo(1..MaxBlockBytes, MaxCacheLen) \ {<<>>}}

\* Tcp::new has returned Ok(Self) with block_cache: the construction that
\* drew every palette entry once, in order, each chunk rendered to its full
\* size hint.
Constructed ==
    /\ block_cache \in Caches
    /\ chunks = [k \in DOMAIN block_cache |-> block_cache[k].total_bytes]
    /\ block_byte_sizes = chunks
    /\ total_bytes = SumSeq(chunks) + SetMin(Range(chunks))
    /\ bytes_remaining = SetMin(Range(chunks))
    /\ chunkPc = "done"
    /\ chunkResult = "Ok"
    /\ lastDraw = chunks[Len(chunks)]
    /\ skipped = FALSE
    /\ cachePc = "returned"
    /\ chunkIdx = Len(chunks) + 1
    /\ rendered = chunks
    /\ gauge = 1
    /\ newPc = "constructed"
    /\ outputs = [k \in DOMAIN block_cache |-> block_cache[k].bytes]

\* inner_main is about to spawn the generator: the channel exists, the
\* telemetry is set up (with Log, the capture manager holds a receiver and
\* runs), generator::Server::new has built the Tcp with its receiver, and the
\* rate limiter starts with its whole burst available.
Init ==
    /\ Constructed
    /\ bytes_per_second \in 1..MaxRate
    /\ tokens = bytes_per_second
    /\ spinPc = "unspawned"
    /\ connection = "None"
    /\ cursor = 1
    /\ blk = 0
    /\ granted = 0
    /\ lastAttempt = 0
    /\ sinkStalled = FALSE
    /\ metric = <<"none", 0>>
    /\ telemetry \in {"Prometheus", "Log"}
    /\ blackhole \in BOOLEAN
    /\ mainPc = "spawn_generator"
    /\ receivers = {"main", "generator"} \cup
                     (IF telemetry = "Log" THEN {"capture"} ELSE {})
    /\ shutdown_sent = FALSE
    /\ tasks = [t \in {"capture", "target", "blackhole"} |->
                  IF t = "capture" /\ telemetry = "Log" THEN "running" ELSE "none"]
    /\ trigger = "none"
    /\ win = NoWindow
    /\ config_bps = [hi |-> 0, lo |-> bytes_per_second]
    /\ tally = NoTally
    /\ opts = NoOpts
    /\ config = FileConfig(telemetry, <<>>, <<>>)
    /\ cfgPc = "returned"

NextSpin ==
    \/ SpinStart
    \/ ConnectOk
    \/ ConnectErr
    \/ SendBranch
    \/ WriteOk
    \/ WriteErr
    \/ ShutdownRecv
    \/ Tick
    \/ SinkStall

NextMain ==
    \/ MainSpawnGenerator
    \/ \E ok \in BOOLEAN : MainTarget(ok)
    \/ MainBlackhole
    \/ MainDrop
    \/ \E branch \in {"ctrl_c", "experiment_duration", "target"} : MainSelect(branch)
    \/ MainWait
    \/ MainWake
    \/ MainTeardown
    \/ MainBye
    \/ \E t \in {"capture", "target", "blackhole"} : TaskExit(t)

Next == NextSpin \/ NextMain

Spec == Init /\ [][Next]_vars

\* The scheduling the runtime gives: main and every spawned task keep being
\* polled, timers fire, select! picks among its ready branches at random (a
\* branch ready again and again is taken), a write to a peer that reads
\* completes, and a sibling task that has observed the broadcast finishes.
\* Nothing obliges a connect to succeed, a write to fail, the peer to stall,
\* ctrl-c to arrive or the target to exit.
FairSpec ==
    /\ Spec
    /\ WF_vars(MainSpawnGenerator)
    /\ WF_vars(\E ok \in BOOLEAN : MainTarget(ok))
    /\ WF_vars(MainBlackhole)
    /\ WF_vars(MainDrop)
    /\ WF_vars(MainSelect("experiment_duration"))
    /\ WF_vars(MainWait)
    /\ WF_vars(MainWake)
    /\ WF_vars(MainTeardown)
    /\ WF_vars(MainBye)
    /\ WF_vars(SpinStart)
    /\ SF_vars(ShutdownRecv)
    /\ WF_vars(WriteOk)
    /\ WF_vars(Tick)
    /\ \A t \in {"capture", "target", "blackhole"} : WF_vars(shutdown_sent /\ TaskExit(t))

\* C1 (as claimed): every write of a block is preceded by a successful grant
\* of exactly blk.total_bytes tokens for that block, whatever the block size.
C1_TokensBeforeWrite ==
    spinPc = "writing" => granted = block_cache[blk].total_bytes

\* C2 (as claimed): the first block written is cache[0] and each later write
\* attempt uses the index after the previous attempt's, modulo cache.len().
C2_CacheOrder ==
    spinPc = "writing" =>
        blk = (IF lastAttempt = 0 THEN 1 ELSE (lastAttempt % Len(block_cache)) + 1)

\* C3 (as claimed): once shutdown has been broadcast the emission task
\* eventually returns Ok, from every state it can be in.
C3_ShutdownTerminates ==
    (shutdown_sent /\ spinPc \in {"spawned", "select", "writing"}) ~> (spinPc = "returned")

\* C4 (as claimed): after the broadcast main always reaches
\* runtime.shutdown_timeout, even if a task never drops its receiver.
C4_TeardownAfterBroadcast ==
    shutdown_sent ~> (mainPc \in {"torn_down", "exited"})

\* ------------------------------------ the emission loop: specification

\* The emission task has been spawned and not yet polled; inner_main has
\* spawned the target server, dropped its own receiver and waits in its
\* select!. No capture manager, no blackhole.
LoopStart ==
    /\ Constructed
    /\ bytes_per_second \in 1..MaxRate
    /\ tokens = bytes_per_second
    /\ spinPc = "spawned"
    /\ connection = "None"
    /\ cursor = 1
    /\ blk = 0
    /\ granted = 0
    /\ lastAttempt = 0
    /\ sinkStalled = FALSE
    /\ metric = <<"none", 0>>
    /\ telemetry = "Prometheus"
    /\ blackhole = FALSE
    /\ mainPc = "select"
    /\ receivers = {"generator", "target"}
    /\ shutdown_sent = FALSE
    /\ tasks = [t \in {"capture", "target", "blackhole"} |->
                  IF t = "target" THEN "running" ELSE "none"]
    /\ trigger = "none"
    /\ win = NoWindow
    /\ config_bps = [hi |-> 0, lo |-> bytes_per_second]
    /\ opts = NoOpts
    /\ config = FileConfig(telemetry, <<>>, <<>>)
    /\ cfgPc = "returned"

InitLoop == LoopStart /\ tally = NoTally

\* The emission task runs; of the rest of the program only the broadcast
\* (ctrl-c or the experiment's end) happens.
NextLoop ==
    \/ NextSpin
    \/ \E branch \in {"ctrl_c", "experiment_duration"} : MainSelect(branch)

SpecLoop == InitLoop /\ [][NextLoop]_vars

\* C13: the connection slot is Absent at start; Absent -> Present only on a
\* successful connect; Present -> Absent only on a write error; a failed
\* connect leaves it Absent, a successful write leaves it Present; once spin
\* has returned on shutdown, from either state, nothing changes any more.
C13_ConnectionMachine ==
    /\ [](spinPc \in {"unspawned", "spawned"} => connection = "None")
    /\ [][SpinStart => connection' = "None"]_vars
    /\ [][(connection = "None" /\ connection' = "Some") => ConnectOk]_vars
    /\ [][(connection = "Some" /\ connection' = "None") => WriteErr]_vars
    /\ [][ConnectErr => (connection = "None" /\ connection' = "None")]_vars
    /\ [][WriteOk => (connection = "Some" /\ connection' = "Some")]_vars
    /\ [][ShutdownRecv => (connection' = connection /\ spinPc' = "returned")]_vars
    /\ [][spinPc = "returned" => (spinPc' = "returned" /\ connection' = connection)]_vars

C13_Witness ==
    /\ spinPc = "returned"
    /\ connection = "Some"
    /\ metric = <<"request_failure", 1>>

\* C14: in every iteration the connect branch is selectable only with the
\* connection absent, the send branch only with it present, never both, and
\* the shutdown branch whenever the signal is there; so no tokens are taken
\* while the connection is absent and no connect is made while one is held.
C14_BranchesExclusive ==
    /\ []((spinPc = "select" /\ RuntimeAlive) =>
            /\ (ENABLED (ConnectOk \/ ConnectErr)) <=> connection = "None"
            /\ (ENABLED SendBranch) => connection = "Some"
            /\ ~((ENABLED (ConnectOk \/ ConnectErr)) /\ (ENABLED SendBranch))
            /\ shutdown_sent => ENABLED ShutdownRecv)
    /\ [][tokens' < tokens => connection = "Some"]_vars
    /\ [][(ConnectOk \/ ConnectErr) => connection = "None"]_vars

C14_Witness ==
    /\ spinPc = "select"
    /\ connection = "Some"
    /\ shutdown_sent
    /\ lastAttempt # 0
    /\ tokens < bytes_per_second
    /\ metric = <<"connection_failure", 1>>

InitRate ==
    /\ InitLoop
    /\ Len(block_cache) <= MaxWindowCacheLen
    /\ \A k \in DOMAIN block_cache : block_cache[k].total_bytes <= bytes_per_second

\* The emission loop, watched over one window of 1..MaxWindowSeconds seconds.
NextRate ==
    \/ NextLoop
    \/ \E k \in 1..MaxWindowSeconds : OpenWindow(k)

SpecRate == InitRate /\ [][NextRate]_vars

\* The premise of C16.
BlocksFitQuota ==
    \A k \in DOMAIN block_cache : block_cache[k].total_bytes <= bytes_per_second

C17_RateTooHigh ==
    /\ (config_bps.hi > 0 /\ newPc # "start") => newPc = "err"
    /\ newPc \in {"running", "constructed"} =>
          (config_bps.hi = 0 /\ bytes_per_second = config_bps.lo)

\* ---------------------------------------- the counters: specification

\* The emission loop with a recorder adding up its first MaxEvents counter!
\* calls.
InitCount == LoopStart /\ tally = [NoTally EXCEPT !.left = MaxEvents]

SpecCount == InitCount /\ [][NextLoop]_vars

\* C18: bytes_written is at every point the sum of total_bytes over the
\* writes completed successfully so far: each successful write adds exactly
\* blk.total_bytes, nothing decreases it, connects and failed writes leave
\* it alone, and it is 0 as long as no connect has succeeded.
C18_BytesWritten ==
    /\ [](tally.bytes_written = tally.ok_bytes)
    /\ [][(WriteOk /\ tally.left > 0) =>
            tally'.bytes_written = tally.bytes_written + block_cache[blk].total_bytes]_vars
    /\ [][tally'.bytes_written >= tally.bytes_written]_vars
    /\ [][(ConnectOk \/ ConnectErr \/ WriteErr) =>
            tally'.bytes_written = tally.bytes_written]_vars
    /\ [](~tally.connected => tally.bytes_written = 0)

C18_Witness ==
    /\ tally.bytes_written = 3
    /\ tally.left = 0
    /\ metric = <<"request_failure", 1>>
    /\ spinPc = "select"

\* C19: a failed connect adds exactly 1 to connection_failure and changes no
\* other counter; a failed write adds exactly 1 to request_failure, changes
\* no other counter, and leaves the loop at a select! whose send branch is
\* disabled: the next iteration that is not the shutdown is a connect.
C19_FailureCounters ==
    /\ [][(ConnectErr /\ tally.left > 0) =>
            tally' = [tally EXCEPT !.connection_failure = @ + 1, !.left = @ - 1]]_vars
    /\ [][(WriteErr /\ tally.left > 0) =>
            tally' = [tally EXCEPT !.request_failure = @ + 1, !.left = @ - 1]]_vars
    /\ [][WriteErr => (spinPc' = "select" /\ connection' = "None")]_vars
    /\ []((spinPc = "select" /\ connection = "None" /\ RuntimeAlive) =>
            (~(ENABLED SendBranch) /\ ENABLED (ConnectOk \/ ConnectErr)))

C19_Witness ==
    /\ tally.connection_failure = 1
    /\ tally.request_failure = 1
    /\ tally.bytes_written = 0
    /\ connection = "Some"

\* ----------------------------------------------- get_config: specification

LabelMaps == Maps({"host", "env"}, {"a", "b"})
EnvMaps == Maps({"RUST_LOG"}, {"debug", "info"})

\* chunk_bytes not called.
IdleChunk ==
    /\ total_bytes = 1
    /\ block_byte_sizes = <<>>
    /\ chunkPc = "start"
    /\ chunks = <<>>
    /\ bytes_remaining = 0
    /\ chunkResult = "pending"
    /\ lastDraw = 0
    /\ skipped = FALSE

\* The command line is parsed and the file deserialized: any combination of
\* the options, any telemetry variant, labels and environment in the file.
InitConfig ==
    /\ IdleChunk
    /\ IdleCache
    /\ IdleSpin
    /\ opts \in [capture_path : {"None", "/captures"},
                 prometheus_addr : {"None", "0.0.0.0:9000", "not_an_address"},
                 global_labels : LabelMaps,
                 target_env_vars : EnvMaps]
    /\ \E kind \in {"Prometheus", "Log"} : \E labels \in LabelMaps : \E env \in EnvMaps :
          /\ config = FileConfig(kind, labels, env)
          /\ telemetry = kind
    /\ cfgPc = "parsed"
    /\ blackhole = FALSE
    /\ mainPc = "telemetry"
    /\ receivers = {}
    /\ shutdown_sent = FALSE
    /\ tasks = [t \in {"capture", "target", "blackhole"} |-> "none"]
    /\ trigger = "none"

SpecConfig == InitConfig /\ [][GetConfig]_vars

\* C20 (as claimed): with both --capture-path and --prometheus-addr given,
\* get_config selects the Log telemetry writing to capture_path; with only
\* one given, that one; with neither, the file's telemetry is kept.
C20_CapturePathOverrides ==
    [][(GetConfig /\ cfgPc' = "returned") =>
        /\ opts.capture_path # "None" =>
              (config'.telemetry.kind = "Log" /\
               config'.telemetry.target = opts.capture_path)
        /\ (opts.capture_path = "None" /\ opts.prometheus_addr # "None") =>
              (config'.telemetry.kind = "Prometheus" /\
               config'.telemetry.target = opts.prometheus_addr)
        /\ (opts.capture_path = "None" /\ opts.prometheus_addr = "None") =>
              (config'.telemetry.kind = config.telemetry.kind /\
               config'.telemetry.target = config.telemetry.target)]_vars

\* ------------------------------------------ the supervisor: specification

\* As Init, the generator holding the smallest cache and quota: inner_main
\* does not look at either.
InitMain ==
    /\ Init
    /\ Len(block_cache) = 1
    /\ block_cache[1].total_bytes = 1
    /\ bytes_per_second = 1

SpecMain == InitMain /\ [][Next]_vars

\* The scheduling of FairSpec.
FairMain ==
    /\ SpecMain
    /\ WF_vars(MainSpawnGenerator)
    /\ WF_vars(\E ok \in BOOLEAN : MainTarget(ok))
    /\ WF_vars(MainBlackhole)
    /\ WF_vars(MainDrop)
    /\ WF_vars(MainSelect("experiment_duration"))
    /\ WF_vars(MainWait)
    /\ WF_vars(MainWake)
    /\ WF_vars(MainTeardown)
    /\ WF_vars(MainBye)
    /\ WF_vars(SpinStart)
    /\ SF_vars(ShutdownRecv)
    /\ WF_vars(WriteOk)
    /\ WF_vars(Tick)
    /\ \A t \in {"capture", "target", "blackhole"} : WF_vars(shutdown_sent /\ TaskExit(t))

\* inner_main is past its select!.
PastSelect == mainPc \in {"wait", "sleep", "returned", "torn_down", "exited"}

\* C21: the signal is broadcast exactly once: every run that reaches the
\* select! broadcasts, nothing broadcasts again, and the broadcast is made by
\* a ready branch (ctrl-c, the timer, or the target task's exit) with at
\* least one spawned task holding a receiver, so that the send does not fail;
\* no task observes the signal before it.
C21_BroadcastOnce ==
    /\ (mainPc = "select") ~> shutdown_sent
    /\ [](shutdown_sent <=> PastSelect)
    /\ [](shutdown_sent <=> trigger # "none")
    /\ [][(shutdown_sent' # shutdown_sent \/ trigger' # trigger) =>
            /\ ~shutdown_sent /\ shutdown_sent'
            /\ mainPc = "select" /\ mainPc' = "wait"
            /\ receivers # {}
            /\ receivers \ {"main"} # {}
            /\ trigger' \in {"ctrl_c", "experiment_duration", "target"}
            /\ trigger' = "target" => tasks["target"] = "done"]_vars
    /\ [][mainPc = "select" => mainPc' # "panicked"]_vars
    /\ [][(ShutdownRecv \/ TaskExit("capture") \/ TaskExit("blackhole")) => shutdown_sent]_vars
    /\ [](spinPc = "returned" \/ tasks["capture"] = "done" \/ tasks["blackhole"] = "done"
            => shutdown_sent)

C21_Witness ==
    /\ trigger = "target"
    /\ receivers = {"generator", "blackhole"}
    /\ mainPc = "wait"
    /\ tasks["capture"] = "done"

\* C22: after the broadcast inner_main returns exactly when the receiver
\* count has reached 0: never while a spawned task holds its receiver, and
\* eventually once every task has dropped its own; inner_main's own receiver
\* is dropped before the select! and is not among those counted.
C22_ReturnsIffNoReceivers ==
    /\ [][(mainPc # "returned" /\ mainPc' = "returned") =>
            (shutdown_sent /\ mainPc = "wait" /\ receivers = {})]_vars
    /\ [][(mainPc = "wait" /\ receivers # {}) => mainPc' \in {"wait", "sleep"}]_vars
    /\ [](mainPc \in {"returned", "torn_down", "exited"} => receivers = {})
    /\ (shutdown_sent /\ receivers = {}) ~> (mainPc \in {"returned", "torn_down", "exited"})
    /\ [](mainPc \in {"select", "wait", "sleep"} => "main" \notin receivers)

C22_Witness ==
    /\ mainPc = "returned"
    /\ trigger = "ctrl_c"
    /\ spinPc = "returned"
    /\ \A t \in {"capture", "target", "blackhole"} : tasks[t] = "done"

====
